---- MODULE Spec2Model ----
(***************************************************************************)
(* Model of mongo_connector/doc_managers/solr_doc_manager.py: the          *)
(* DocManager write path (transform_doc, clean_doc, upsert, commit,        *)
(* sendDocsBulk, remove, _remove, run_auto_commit, stop) against a Solr    *)
(* backend whose replies are chosen nondeterministically.                  *)
(*                                                                         *)
(* Python dictionaries are functions; the keys of an indexable document    *)
(* are sequences of one-character strings so that the regular expressions  *)
(* of clean_doc can be evaluated character by character.  Upstream         *)
(* documents are nested records with string field names.                   *)
(***************************************************************************)
EXTENDS Integers, Sequences, FiniteSets, TLC

(***************************************************************************)
(* Bounds of the model.                                                    *)
(***************************************************************************)
\* commit_bulk_max is 1000 in the source (line 62); the model draws the
\* attribute from 1..MaxThreshold at construction.
MaxThreshold == 2
\* number of upsert calls that append a document, per behaviour
MaxUpserts == 3
\* number of solr.add calls after which commit is no longer called
MaxAdds == 3
\* writer threads and upserts per thread (concurrent specification)
NumThreads == 2
MaxThreadUpserts == 2

(***************************************************************************)
(* Field names of the backend (keys of an indexable document).             *)
(***************************************************************************)
k__id == <<"_", "i", "d">>
k_id == <<"i", "d">>
k_cs_address_street ==
    <<"c","s","_","a","d","d","r","e","s","s","_","s","t","r","e","e","t">>
k_cs_address_city ==
    <<"c","s","_","a","d","d","r","e","s","s","_","c","i","t","y">>
k_cs_address_postal_code ==
    <<"c","s","_","a","d","d","r","e","s","s","_",
      "p","o","s","t","a","l","_","c","o","d","e">>
k_cs_description ==
    <<"c","s","_","d","e","s","c","r","i","p","t","i","o","n">>
k_cs_email == <<"c","s","_","e","m","a","i","l">>
k_fax == <<"f","a","x">>
k_cs_name == <<"c","s","_","n","a","m","e">>
k_phone == <<"p","h","o","n","e">>

\* the constructor's default unique_key='_id'
unique_key == "_id"

(***************************************************************************)
(* Regular expressions of clean_doc.                                       *)
(***************************************************************************)
\* the characters matched by \w (ASCII part)
WordChars ==
    {"a","b","c","d","e","f","g","h","i","j","k","l","m","n","o","p","q",
     "r","s","t","u","v","w","x","y","z","0","1","2","3","4","5","6","7",
     "8","9","_"}

\* key[i] exists and is a word character
WordAt(key, i) == i >= 1 /\ i <= Len(key) /\ key[i] \in WordChars

\* \b at offset i, i.e. between key[i] and key[i+1]
Boundary(key, i) == WordAt(key, i) # WordAt(key, i + 1)

\* the literal s occurs in key right after offset i
LiteralAt(key, i, s) ==
    /\ i + Len(s) <= Len(key)
    /\ \A j \in 1..Len(s) : key[i + j] = s[j]

\* re.compile(r'\w%s\b' % field).match(key) for a field that starts with
\* '*': the pattern text is \w*S\b with S = field[1:], so the '*' of the
\* field quantifies the \w that precedes it.
MatchLeading(field, key) ==
    LET S == SubSeq(field, 2, Len(field))
    IN \E i \in 0..Len(key) :
          /\ \A j \in 1..i : key[j] \in WordChars
          /\ LiteralAt(key, i, S)
          /\ Boundary(key, i + Len(S))

\* re.compile(r'\b%s\w' % field).match(key) for a field that does not
\* start with '*': when the field ends with '*' the pattern text is
\* \bQc*\w with field = Q c '*', so the '*' quantifies the last character
\* of the prefix; without a '*' the field is a literal.
MatchTrailing(field, key) ==
    IF Len(field) >= 2 /\ field[Len(field)] = "*"
    THEN LET Q == SubSeq(field, 1, Len(field) - 2)
             c == field[Len(field) - 1]
         IN /\ Boundary(key, 0)
            /\ LiteralAt(key, 0, Q)
            /\ \E n \in 0..Len(key) :
                  /\ Len(Q) + n <= Len(key)
                  /\ \A j \in 1..n : key[Len(Q) + j] = c
                  /\ WordAt(key, Len(Q) + n + 1)
    ELSE /\ Boundary(key, 0)
         /\ LiteralAt(key, 0, field)
         /\ WordAt(key, Len(field) + 1)

\* lines 106-110: the regex chosen for one dynamic field, matched at the
\* start of the key
DynamicMatch(field, key) ==
    IF field[1] = "*" THEN MatchLeading(field, key)
    ELSE MatchTrailing(field, key)

\* the elements of a Python list
Elems(list) == {list[i] : i \in 1..Len(list)}

\* clean_doc storing a dynamic match under the name of the dynamic field
\* instead of the key of the document
clean_doc_with_fieldKey(fl, dfl, doc) ==
    IF fl = <<>> THEN doc
    ELSE LET exact == {key \in DOMAIN doc : key \in Elems(fl[1])}
             hit(i) == {key \in DOMAIN doc \ exact : DynamicMatch(dfl[i], key)}
             dyn == {i \in 1..Len(dfl) : hit(i) # {}}
         IN [k \in exact \cup {dfl[i] : i \in dyn} |->
                IF k \in exact THEN doc[k]
                ELSE LET i == CHOOSE i \in dyn : dfl[i] = k
                     IN doc[CHOOSE key \in hit(i) : TRUE]]

\* clean_doc with the two attributes it reads passed explicitly:
\* fl is self.field_list (a tuple holding the list of exact fields),
\* dfl is self.dynamic_field_list
clean_doc_with(fl, dfl, doc) ==
    IF fl = <<>> THEN doc
    ELSE LET kept == {key \in DOMAIN doc :
                        \/ key \in Elems(fl[1])
                        \/ \E i \in 1..Len(dfl) : DynamicMatch(dfl[i], key)}
         IN [key \in kept |-> doc[key]]

\* _parse_fields: the keys of result['schema'][field_name], each once
_parse_fields(result, field_name) == result[field_name]

(***************************************************************************)
(* transform_doc.                                                          *)
(***************************************************************************)
Has(d, k) == k \in DOMAIN d

\* dict with d[k] = v added
Put(d, k, v) == [x \in DOMAIN d \cup {k} |-> IF x = k THEN v ELSE d[x]]

\* d[k] = src[f] added when f is a key of src
PutIf(d, src, f, k) == IF Has(src, f) THEN Put(d, k, src[f]) ELSE d

\* transform_doc raises KeyError: doc['_id'] (line 149) or
\* doc['value']['data'] (line 152) does not exist
transform_raises(doc) ==
    \/ ~Has(doc, "_id")
    \/ ~Has(doc, "value")
    \/ ~Has(doc["value"], "data")

\* transform_doc storing fax under cs_fax, like its cs_ neighbours
transform_doc_faxPrefixed(doc) ==
    LET data == doc["value"]["data"]
        n0 == Put(Put(<<>>, k__id, doc["_id"]), k_id, doc["_id"])
        n1 == IF Has(data, "address")
              THEN LET a == data["address"]
                   IN PutIf(PutIf(PutIf(n0, a, "street", k_cs_address_street),
                                  a, "city", k_cs_address_city),
                            a, "postalCode", k_cs_address_postal_code)
              ELSE n0
        n2 == PutIf(n1, data, "description", k_cs_description)
        n3 == PutIf(n2, data, "email", k_cs_email)
        n4 == PutIf(n3, data, "fax", <<"c","s","_","f","a","x">>)
        n5 == PutIf(n4, data, "name", k_cs_name)
    IN PutIf(n5, data, "phone", k_phone)

\* the dictionary transform_doc returns when it does not raise
transform_doc(doc) ==
    LET data == doc["value"]["data"]
        n0 == Put(Put(<<>>, k__id, doc["_id"]), k_id, doc["_id"])
        n1 == IF Has(data, "address")
              THEN LET a == data["address"]
                   IN PutIf(PutIf(PutIf(n0, a, "street", k_cs_address_street),
                                  a, "city", k_cs_address_city),
                            a, "postalCode", k_cs_address_postal_code)
              ELSE n0
        n2 == PutIf(n1, data, "description", k_cs_description)
        n3 == PutIf(n2, data, "email", k_cs_email)
        n4 == PutIf(n3, data, "fax", k_fax)
        n5 == PutIf(n4, data, "name", k_cs_name)
    IN PutIf(n5, data, "phone", k_phone)

(***************************************************************************)
(* Inputs.                                                                 *)
(***************************************************************************)
\* upstream documents handed to upsert and remove
UpstreamDocs ==
    { [_id |-> "x1", value |-> [data |-> [name |-> "Acme", phone |-> "555"]]],
      [_id |-> "x2", value |-> [data |-> [address |-> [city |-> "Brno"],
                                          fax |-> "556"]]],
      [value |-> [data |-> <<>>]] }

\* replies of the schema request (admin/luke): the keys of
\* schema.fields and of schema.dynamicFields
Schemas ==
    { [fields |-> <<>>, dynamicFields |-> <<>>],
      [fields |-> <<k__id, k_id, k_phone>>,
       dynamicFields |-> << <<"c","s","_","*">> >>] }

\* keys of the documents handed to clean_doc on its own
FilterKeys ==
    { k__id, k_cs_name, <<"c","s">>, <<"c","s","x">>, <<"_","n","a","m","e">> }

\* documents handed to clean_doc on its own
FilterDocs ==
    UNION { [ks -> {"v"}] : ks \in SUBSET FilterKeys }

\* schema replies for clean_doc on its own
FilterSchemas ==
    Schemas \cup
    { [fields |-> <<>>, dynamicFields |-> << <<"*","_","n","a","m","e">> >>],
      [fields |-> <<>>, dynamicFields |-> << <<"c","s","_","*">> >>],
      [fields |-> <<k__id>>, dynamicFields |-> <<>>],
      [fields |-> <<k__id>>,
       dynamicFields |-> << <<"c","s","_","*">>, <<"*","_","n","a","m","e">> >>] }

\* upstream documents handed to transform_doc on its own: every subset of
\* the optional fields of value.data and of value.data.address, each path
\* with a value of its own, and documents lacking _id, value or value.data
AddressValues ==
    [street |-> "Main 1", city |-> "Brno", postalCode |-> "60200"]

DataValues ==
    [description |-> "desc", email |-> "a@b", fax |-> "556", name |-> "Acme",
     phone |-> "555"]

TransformAddresses ==
    { [f \in S |-> AddressValues[f]] : S \in SUBSET DOMAIN AddressValues }

TransformDatas ==
    { [f \in S |-> DataValues[f]] : S \in SUBSET DOMAIN DataValues }
    \cup
    { [f \in S \cup {"address"} |->
          IF f = "address" THEN a ELSE DataValues[f]] :
      S \in SUBSET DOMAIN DataValues, a \in TransformAddresses }

TransformDocs ==
    { [_id |-> "x1", value |-> [data |-> dt]] : dt \in TransformDatas }
    \cup { [value |-> [data |-> dt]] :
             dt \in { [f \in S |-> DataValues[f]] : S \in {{}, {"name"}} } }
    \cup { [_id |-> "x1"], [_id |-> "x1", value |-> <<>>],
           [_id |-> "x1", value |-> [other |-> "o"]] }

\* outcomes of solr.add: accepted, rejected (SolrError), any other exception
AddResults == {"ok", "SolrError", "IOError"}

\* outcomes of the other backend calls
CallResults == {"ok", "IOError"}

\* outcomes of solr.search
SearchResults == {"ok", "ValueError", "IOError"}

Threads == 1..NumThreads


(***************************************************************************)
(* State.                                                                  *)
(***************************************************************************)
VARIABLES
    \* attributes of the DocManager
    field_list,          \* tuple holding the list of exact schema fields
    dynamic_field_list,  \* list of dynamic field patterns
    auto_commit,         \* the auto_commit flag
    commit_bulk_max,     \* flush threshold
    commit_bulk_num,     \* counter of buffered documents
    docs,                \* the buffer: list of cleaned documents
    timer,               \* a Timer(1, run_auto_commit) is pending
    \* the backend
    index,               \* identifiers of the documents in the index
    \* history of the calls, for stating the properties
    tags,                \* per buffered document: upsert number and _id
    nUpsert,             \* upsert calls that appended a document
    nAdd,                \* solr.add calls
    lastAdd,             \* the latest solr.add call
    lastOp,              \* the latest operation and how it ended
    removedBuffered,     \* ids removed while an upsert of them was buffered
    \* writer threads (concurrent specification)
    pc,                  \* per thread: position inside upsert
    loc,                 \* per thread: local values
    accepted,            \* upsert numbers carried by an accepted solr.add
    twice,               \* upsert numbers carried by two accepted solr.add
    lost,                \* upsert numbers cleared without having been sent
    midFlush,            \* a document was appended between an add and its clear
    \* clean_doc called on its own
    cleanIn,
    cleanOut

prog == <<field_list, dynamic_field_list, auto_commit, commit_bulk_max,
          commit_bulk_num, docs, timer>>
hist == <<tags, nUpsert, nAdd, lastAdd, lastOp, removedBuffered>>
conc == <<pc, loc, accepted, twice, lost, midFlush>>
filt == <<cleanIn, cleanOut>>
vars == <<prog, index, hist, conc, filt>>

\* clean_doc (lines 90-113)
clean_doc(doc) == clean_doc_with(field_list, dynamic_field_list, doc)

\* no solr.add call yet; floor is the number of the latest upsert whose
\* document an earlier solr.add call had delivered
NoAdd ==
    [docs |-> <<>>, tags |-> <<>>, num |-> 0, result |-> "none", floor |-> 0]

Op(name, raised, calls) == [op |-> name, raised |-> raised, calls |-> calls]

\* __init__ (lines 52-71) with the schema reply drawn from schemas and the
\* auto_commit argument drawn from autos:
\* build_fields stores the exact fields inside a one-element tuple (the
\* trailing comma of line 87); with auto_commit the constructor runs
\* run_auto_commit once, which starts the timer.
InitWith(schemas, autos) ==
    /\ \E result \in schemas :
          /\ field_list = << _parse_fields(result, "fields") >>
          /\ dynamic_field_list = _parse_fields(result, "dynamicFields")
    /\ auto_commit \in autos
    /\ commit_bulk_max \in 1..MaxThreshold
    /\ commit_bulk_num = 0
    /\ docs = <<>>
    /\ timer = auto_commit
    /\ index = {}
    /\ tags = <<>>
    /\ nUpsert = 0
    /\ nAdd = 0
    /\ lastAdd = NoAdd
    /\ lastOp = Op("init", "none", IF auto_commit THEN <<"commit">> ELSE <<>>)
    /\ removedBuffered = {}
    /\ pc = [t \in Threads |-> "idle"]
    /\ loc = [t \in Threads |-> [n |-> 0, tmp |-> 0, sent |-> {}]]
    /\ accepted = {}
    /\ twice = {}
    /\ lost = {}
    /\ midFlush = FALSE
    /\ cleanIn = <<>>
    /\ cleanOut = <<>>

\* DocManager(url): auto_commit defaults to False
Init == InitWith(Schemas, {FALSE})

\* DocManager(url, auto_commit) with either value of the flag
InitAuto == InitWith(Schemas, BOOLEAN)

(***************************************************************************)
(* The buffer: upsert, commit, sendDocsBulk.                               *)
(***************************************************************************)
\* ThresholdReached with == in place of >=
ThresholdEquals(num, max) == num = max

\* ThresholdReached with > in place of >=
ThresholdExceeded(num, max) == num > max

\* line 194: the test that triggers the flush
ThresholdReached(num, max) == num >= max

\* sendDocsBulk emptying the buffer after an accepted solr.add without
\* setting the counter back to zero
sendDocsBulk_noReset(ds, num, res) ==
    IF ds # <<>>
    THEN [docs |-> IF res = "ok" THEN <<>> ELSE ds, num |-> num,
          raised |-> IF res \in {"ok", "SolrError"} THEN "none" ELSE res,
          called |-> TRUE]
    ELSE [docs |-> ds, num |-> num, raised |-> "none", called |-> FALSE]

\* sendDocsBulk clearing the buffer and the counter whatever solr.add did
sendDocsBulk_clearAlways(ds, num, res) ==
    IF ds # <<>>
    THEN [docs |-> <<>>, num |-> 0,
          raised |-> IF res \in {"ok", "SolrError"} THEN "none" ELSE res,
          called |-> TRUE]
    ELSE [docs |-> ds, num |-> num, raised |-> "none", called |-> FALSE]

\* sendDocsBulk (lines 197-212) on buffer ds and counter num when solr.add
\* answers res: the new buffer and counter, the exception that leaves the
\* method, and whether solr.add was called
sendDocsBulk(ds, num, res) ==
    IF ds # <<>>
    THEN CASE res = "ok" ->
                [docs |-> <<>>, num |-> 0, raised |-> "none", called |-> TRUE]
           [] res = "SolrError" ->
                [docs |-> ds, num |-> num, raised |-> "none", called |-> TRUE]
           [] OTHER ->
                [docs |-> ds, num |-> num, raised |-> res, called |-> TRUE]
    ELSE [docs |-> ds, num |-> num, raised |-> "none", called |-> FALSE]

\* commit sending the buffer without looking whether it is empty
commit_unguarded(ds, num, res) ==
    [docs |-> IF res = "ok" THEN <<>> ELSE ds,
     num |-> IF res = "ok" THEN 0 ELSE num,
     raised |-> IF res \in {"ok", "SolrError"} THEN "none" ELSE res,
     called |-> TRUE]

\* commit (lines 239-246)
commit(ds, num, res) ==
    IF ds # <<>> THEN sendDocsBulk(ds, num, res)
    ELSE [docs |-> ds, num |-> num, raised |-> "none", called |-> FALSE]

Serials(tg) == {tg[i].n : i \in 1..Len(tg)}
Ids(tg) == {tg[i].id : i \in 1..Len(tg)}

\* solr.add(ds, commit=True) answered res: the effect on the backend and
\* the record of the call
AddCall(ds, tg, num, res) ==
    /\ lastAdd' = [docs |-> ds, tags |-> tg, num |-> num, result |-> res,
                   floor |-> IF lastAdd.result = "ok"
                             THEN lastAdd.tags[Len(lastAdd.tags)].n
                             ELSE lastAdd.floor]
    /\ nAdd' = nAdd + 1
    /\ index' = IF res = "ok" THEN index \cup Ids(tg) ELSE index

NoAddCall == UNCHANGED <<lastAdd, nAdd, index>>

\* list.append putting the new element in front
append_front(list, x) == <<x>> \o list

\* list.append of line 191: the new element goes to the end
append(list, x) == Append(list, x)

\* upsert incrementing the counter before it transforms the document
Upsert_countFirst(d, results) ==
    /\ nUpsert < MaxUpserts
    /\ IF transform_raises(d)
       THEN /\ lastOp' = Op("upsert", "KeyError", <<>>)
            /\ commit_bulk_num' = commit_bulk_num + 1
            /\ UNCHANGED <<field_list, dynamic_field_list, auto_commit,
                           commit_bulk_max, docs, timer, index, tags, nUpsert,
                           nAdd, lastAdd, removedBuffered>>
       ELSE LET doc == clean_doc(transform_doc(d))
                ds1 == append(docs, doc)
                tg1 == append(tags, [n |-> nUpsert + 1, id |-> d["_id"]])
                n1 == commit_bulk_num + 1
                flush == ThresholdReached(n1, commit_bulk_max)
                calls == flush /\ commit(ds1, n1, "ok").called
            IN \E res \in IF calls THEN results ELSE {"none"} :
               LET r == IF flush THEN commit(ds1, n1, res)
                        ELSE [docs |-> ds1, num |-> n1, raised |-> "none",
                              called |-> FALSE]
               IN /\ docs' = r.docs
                  /\ commit_bulk_num' = r.num
                  /\ tags' = IF r.docs = <<>> THEN <<>> ELSE tg1
                  /\ nUpsert' = nUpsert + 1
                  /\ removedBuffered' = removedBuffered \ {d["_id"]}
                  /\ lastOp' = Op("upsert", r.raised,
                                  IF r.called THEN <<"add">> ELSE <<>>)
                  /\ IF r.called THEN AddCall(ds1, tg1, n1, res) ELSE NoAddCall
                  /\ UNCHANGED <<field_list, dynamic_field_list, auto_commit,
                                 commit_bulk_max, timer>>
    /\ UNCHANGED <<conc, filt>>

\* upsert (lines 180-195) of upstream document d; when the call flushes,
\* the answer of solr.add is drawn from results
Upsert(d, results) ==
    /\ nUpsert < MaxUpserts
    /\ IF transform_raises(d)
       THEN /\ lastOp' = Op("upsert", "KeyError", <<>>)
            /\ UNCHANGED <<prog, index, tags, nUpsert, nAdd, lastAdd,
                           removedBuffered>>
       ELSE LET doc == clean_doc(transform_doc(d))
                ds1 == append(docs, doc)
                tg1 == append(tags, [n |-> nUpsert + 1, id |-> d["_id"]])
                n1 == commit_bulk_num + 1
                flush == ThresholdReached(n1, commit_bulk_max)
                calls == flush /\ commit(ds1, n1, "ok").called
            IN \E res \in IF calls THEN results ELSE {"none"} :
               LET r == IF flush THEN commit(ds1, n1, res)
                        ELSE [docs |-> ds1, num |-> n1, raised |-> "none",
                              called |-> FALSE]
               IN /\ docs' = r.docs
                  /\ commit_bulk_num' = r.num
                  /\ tags' = IF r.docs = <<>> THEN <<>> ELSE tg1
                  /\ nUpsert' = nUpsert + 1
                  /\ removedBuffered' = removedBuffered \ {d["_id"]}
                  /\ lastOp' = Op("upsert", r.raised,
                                  IF r.called THEN <<"add">> ELSE <<>>)
                  /\ IF r.called THEN AddCall(ds1, tg1, n1, res) ELSE NoAddCall
                  /\ UNCHANGED <<field_list, dynamic_field_list, auto_commit,
                                 commit_bulk_max, timer>>
    /\ UNCHANGED <<conc, filt>>

\* commit (lines 239-246) called by the connector; when it flushes, the
\* answer of solr.add is drawn from results
Commit(results) ==
    /\ nAdd < MaxAdds
    /\ \E res \in IF commit(docs, commit_bulk_num, "ok").called
                  THEN results ELSE {"none"} :
       LET r == commit(docs, commit_bulk_num, res)
       IN /\ docs' = r.docs
          /\ commit_bulk_num' = r.num
          /\ tags' = IF r.docs = <<>> THEN <<>> ELSE tags
          /\ lastOp' = Op("commit", r.raised,
                          IF r.called THEN <<"add">> ELSE <<>>)
          /\ IF r.called THEN AddCall(docs, tags, commit_bulk_num, res)
             ELSE NoAddCall
    /\ UNCHANGED <<field_list, dynamic_field_list, auto_commit, commit_bulk_max,
                   timer, nUpsert, removedBuffered, conc, filt>>

(***************************************************************************)
(* Deletes and auto-commit.                                                *)
(***************************************************************************)
\* remove (lines 215-220): solr.delete(id=..., commit=True) answered res
Remove(d, res) ==
    /\ IF ~Has(d, unique_key)
       THEN /\ res = "ok"
            /\ lastOp' = Op("remove", "KeyError", <<>>)
            /\ UNCHANGED <<index, removedBuffered>>
       ELSE /\ lastOp' = Op("remove", IF res = "ok" THEN "none" ELSE res,
                            <<"delete">>)
            /\ IF res = "ok"
               THEN /\ index' = index \ {d[unique_key]}
                    /\ removedBuffered' =
                          IF d[unique_key] \in Ids(tags)
                          THEN removedBuffered \cup {d[unique_key]}
                          ELSE removedBuffered
               ELSE UNCHANGED <<index, removedBuffered>>
    /\ UNCHANGED <<prog, tags, nUpsert, nAdd, lastAdd, conc, filt>>

\* _remove (lines 222-225): solr.delete(q='*:*')
Wipe(res) ==
    /\ lastOp' = Op("wipe", IF res = "ok" THEN "none" ELSE res, <<"delete">>)
    /\ index' = IF res = "ok" THEN {} ELSE index
    /\ UNCHANGED <<prog, tags, nUpsert, nAdd, lastAdd, removedBuffered, conc,
                   filt>>

\* run_auto_commit (lines 248-253) fired by the pending timer:
\* solr.commit(), then a new timer while auto_commit is set
RunAutoCommit(res) ==
    /\ timer
    /\ lastOp' = Op("tick", IF res = "ok" THEN "none" ELSE res, <<"commit">>)
    /\ timer' = (res = "ok" /\ auto_commit)
    /\ UNCHANGED <<field_list, dynamic_field_list, auto_commit, commit_bulk_max,
                   commit_bulk_num, docs, index, tags, nUpsert, nAdd, lastAdd,
                   removedBuffered, conc, filt>>

\* stop (lines 115-118)
Stop ==
    /\ auto_commit
    /\ auto_commit' = FALSE
    /\ lastOp' = Op("stop", "none", <<>>)
    /\ UNCHANGED <<field_list, dynamic_field_list, commit_bulk_max,
                   commit_bulk_num, docs, timer, index, tags, nUpsert, nAdd,
                   lastAdd, removedBuffered, conc, filt>>

\* one writer calling the operations one after the other
Next ==
    \/ \E d \in UpstreamDocs : Upsert(d, AddResults)
    \/ Commit(AddResults)
    \/ \E d \in UpstreamDocs, res \in CallResults : Remove(d, res)
    \/ \E res \in CallResults : Wipe(res)

Spec == Init /\ [][Next]_vars

\* the writer and the auto-commit timer
NextAuto ==
    \/ \E d \in UpstreamDocs : Upsert(d, AddResults)
    \/ Commit(AddResults)
    \/ \E res \in CallResults : RunAutoCommit(res)
    \/ Stop

SpecAuto == InitAuto /\ [][NextAuto]_vars

(***************************************************************************)
(* Writer threads: upsert called concurrently on one DocManager.  The      *)
(* class takes no lock, so the statements of upsert, commit and            *)
(* sendDocsBulk of different threads interleave; each action below is one  *)
(* statement (one read or one write of the shared attributes).             *)
(***************************************************************************)
SetPc(t, p) == pc' = [pc EXCEPT ![t] = p]

\* lines 189-191: transform and clean the document, self.docs.append(doc)
T_Append(t, d) ==
    /\ pc[t] = "idle"
    /\ loc[t].n < MaxThreadUpserts
    /\ ~transform_raises(d)
    /\ docs' = Append(docs, clean_doc(transform_doc(d)))
    /\ tags' = Append(tags, [n |-> nUpsert + 1, id |-> d["_id"]])
    /\ nUpsert' = nUpsert + 1
    /\ midFlush' = (midFlush \/ \E u \in Threads \ {t} : pc[u] = "clear")
    /\ loc' = [loc EXCEPT ![t].n = @ + 1]
    /\ SetPc(t, "load")
    /\ UNCHANGED <<field_list, dynamic_field_list, auto_commit, commit_bulk_max,
                   commit_bulk_num, timer, index, nAdd, lastAdd, lastOp,
                   removedBuffered, accepted, twice, lost, filt>>

\* line 192, self.commit_bulk_num += 1: the read
T_Load(t) ==
    /\ pc[t] = "load"
    /\ loc' = [loc EXCEPT ![t].tmp = commit_bulk_num]
    /\ SetPc(t, "store")
    /\ UNCHANGED <<prog, index, hist, accepted, twice, lost, midFlush, filt>>

\* line 192, self.commit_bulk_num += 1: the write
T_Store(t) ==
    /\ pc[t] = "store"
    /\ commit_bulk_num' = loc[t].tmp + 1
    /\ SetPc(t, "check")
    /\ UNCHANGED <<field_list, dynamic_field_list, auto_commit, commit_bulk_max,
                   docs, timer, index, hist, loc, accepted, twice, lost,
                   midFlush, filt>>

\* line 194: if self.commit_bulk_num >= self.commit_bulk_max
T_Check(t) ==
    /\ pc[t] = "check"
    /\ SetPc(t, IF ThresholdReached(commit_bulk_num, commit_bulk_max)
                THEN "commit" ELSE "idle")
    /\ UNCHANGED <<prog, index, hist, loc, accepted, twice, lost, midFlush, filt>>

\* line 243 (commit) and line 199 (sendDocsBulk): if self.docs
T_Test(t) ==
    /\ pc[t] \in {"commit", "send"}
    /\ SetPc(t, IF docs = <<>> THEN "idle"
                ELSE IF pc[t] = "commit" THEN "send" ELSE "add")
    /\ UNCHANGED <<prog, index, hist, loc, accepted, twice, lost, midFlush, filt>>

\* line 203: self.solr.add(self.docs, commit=True) answered res; a
\* SolrError is logged (line 209), any other exception leaves upsert
T_Add(t, res) ==
    /\ pc[t] = "add"
    /\ IF res = "ok"
       THEN /\ accepted' = accepted \cup Serials(tags)
            /\ twice' = twice \cup (Serials(tags) \cap accepted)
            /\ index' = index \cup Ids(tags)
            /\ SetPc(t, "clear")
       ELSE /\ UNCHANGED <<accepted, twice, index>>
            /\ SetPc(t, "idle")
    /\ UNCHANGED <<prog, hist, loc, lost, midFlush, filt>>

\* line 205: self.docs.clear()
T_Clear(t) ==
    /\ pc[t] = "clear"
    /\ docs' = <<>>
    /\ tags' = <<>>
    /\ lost' = lost \cup (Serials(tags) \ accepted)
    /\ SetPc(t, "reset")
    /\ UNCHANGED <<field_list, dynamic_field_list, auto_commit, commit_bulk_max,
                   commit_bulk_num, timer, index, nUpsert, nAdd, lastAdd, lastOp,
                   removedBuffered, loc, accepted, twice, midFlush, filt>>

\* line 207: self.commit_bulk_num = 0
T_Reset(t) ==
    /\ pc[t] = "reset"
    /\ commit_bulk_num' = 0
    /\ SetPc(t, "idle")
    /\ UNCHANGED <<field_list, dynamic_field_list, auto_commit, commit_bulk_max,
                   docs, timer, index, hist, loc, accepted, twice, lost,
                   midFlush, filt>>

NextConc ==
    \E t \in Threads :
       \/ \E d \in UpstreamDocs : T_Append(t, d)
       \/ T_Load(t)
       \/ T_Store(t)
       \/ T_Check(t)
       \/ T_Test(t)
       \/ \E res \in AddResults : T_Add(t, res)
       \/ T_Clear(t)
       \/ T_Reset(t)

SpecConc == Init /\ [][NextConc]_vars

(***************************************************************************)
(* Upserts against a backend that accepts every batch, and no commit;      *)
(* removes, which bypass the buffer, may come in between.                  *)
(***************************************************************************)
NextThreshold ==
    \/ \E d \in UpstreamDocs : Upsert(d, {"ok"})
    \/ \E d \in UpstreamDocs, res \in CallResults : Remove(d, res)

SpecThreshold == Init /\ [][NextThreshold]_vars

(***************************************************************************)
(* clean_doc called on its own, for every schema reply.                    *)
(***************************************************************************)
InitFilter == InitWith(FilterSchemas, {FALSE})

CleanDoc(d) ==
    /\ cleanIn' = d
    /\ cleanOut' = clean_doc(d)
    /\ lastOp' = Op("clean_doc", "none", <<>>)
    /\ UNCHANGED <<prog, index, tags, nUpsert, nAdd, lastAdd, removedBuffered,
                   conc>>

NextFilter == \E d \in FilterDocs : CleanDoc(d)

SpecFilter == InitFilter /\ [][NextFilter]_vars

(***************************************************************************)
(* Properties.                                                             *)
(***************************************************************************)
\* the latest operation was a flush (by upsert or commit) that called
\* solr.add and got the answer res
FlushedWith(res) ==
    /\ lastOp.op \in {"upsert", "commit"}
    /\ lastOp.calls = <<"add">>
    /\ lastAdd.result = res

IsPrefix(a, b) == Len(a) <= Len(b) /\ SubSeq(b, 1, Len(a)) = a

\* C1: after a solr.add that the backend rejected (SolrError), the next
\* solr.add call carries only documents upserted after the rejection, none
\* of the rejected batch.
C1_RejectionRecovery ==
    [][(nAdd' = nAdd + 1 /\ lastAdd.result = "SolrError")
         => Serials(lastAdd'.tags) \cap Serials(lastAdd.tags) = {}]_vars

\* C2: right after a flush whose solr.add was rejected (SolrError), no
\* exception has left the call, the buffer is empty and the counter is zero.
C2_RejectedBatchDropped ==
    FlushedWith("SolrError")
       => lastOp.raised = "none" /\ docs = <<>> /\ commit_bulk_num = 0

\* C3: with an accepting backend and upserts only, after k upserts there
\* were exactly k div N solr.add calls, the latest one carrying exactly N
\* documents and issued inside the upsert that made the counter reach N
\* (upsert number N * number of calls); the buffer is empty and the counter
\* zero right after such an upsert, and the buffer holds k mod N documents.
C3_BufferThreshold ==
    /\ nAdd = nUpsert \div commit_bulk_max
    /\ Len(docs) = nUpsert % commit_bulk_max
    /\ nAdd > 0 =>
          /\ Len(lastAdd.docs) = commit_bulk_max
          /\ lastAdd.num = commit_bulk_max
          /\ lastAdd.tags[Len(lastAdd.tags)].n = nAdd * commit_bulk_max
    /\ lastOp.calls = <<"add">> =>
          /\ lastOp.op = "upsert"
          /\ docs = <<>>
          /\ commit_bulk_num = 0

\* C3 witness: three upserts with threshold two: one flush, one document left
C3_Witness ==
    /\ commit_bulk_max = 2
    /\ nUpsert = 3
    /\ nAdd = 1
    /\ Len(docs) = 1

\* C4: when solr.add fails with an exception other than SolrError, the
\* exception leaves the flush (and the commit or upsert that called it), the
\* buffer and the counter are what they were when the flush began, and the
\* next solr.add call resubmits the same documents.
C4_FailurePropagatedBufferKept ==
    /\ [](FlushedWith("IOError")
            => /\ lastOp.raised = "IOError"
               /\ docs = lastAdd.docs
               /\ commit_bulk_num = lastAdd.num)
    /\ [][(lastOp'.op = "commit" /\ lastOp'.raised = "IOError")
            => docs' = docs /\ commit_bulk_num' = commit_bulk_num]_vars
    /\ [][(nAdd' = nAdd + 1 /\ lastAdd.result = "IOError")
            => IsPrefix(lastAdd.docs, lastAdd'.docs)]_vars

\* C4 witness: a flush of two documents has just failed with a transport error
C4_Witness ==
    /\ FlushedWith("IOError")
    /\ lastOp.raised = "IOError"
    /\ Len(docs) = 2

\* C5: an id that was removed while an upsert of it was buffered (and not
\* upserted again since) is not in the backend index, in particular after
\* any later flush.
C5_DeleteNotMasked ==
    \A id \in removedBuffered : id \notin index

\* C6: with concurrent writers, no buffered document is carried by two
\* solr.add calls that the backend both accepts.
C6_NoBatchFlushedTwice ==
    twice = {}

\* C7: with concurrent writers, no document is appended between a solr.add
\* and the clear that follows it, and no document is cleared from the buffer
\* without having been carried by an accepted solr.add.
C7_NoAppendMidFlush ==
    ~midFlush /\ lost = {}

\* C8: a commit called while the buffer is empty issues no backend call and
\* leaves the buffer, the counter and the index unchanged.
C8_CommitNoOp ==
    [][(lastOp'.op = "commit" /\ docs = <<>>)
         => /\ lastOp'.calls = <<>>
            /\ lastOp'.raised = "none"
            /\ nAdd' = nAdd
            /\ index' = index
            /\ docs' = docs
            /\ commit_bulk_num' = commit_bulk_num]_vars

\* C8 witness: a commit on an empty buffer, after a flush emptied it
C8_Witness ==
    /\ lastOp.op = "commit"
    /\ lastOp.calls = <<>>
    /\ docs = <<>>
    /\ nAdd > 0

\* C9: a tick of the auto-commit timer while auto_commit is set and documents
\* are buffered sends them with a solr.add, and the buffer is empty after the
\* tick when the backend accepts them.
C9_TickFlushesBuffer ==
    [][(lastOp'.op = "tick" /\ auto_commit /\ docs # <<>>)
         => /\ nAdd' = nAdd + 1
            /\ (lastAdd'.result = "ok" => docs' = <<>>)]_vars

\* C10: when the schema reply has no exact fields, clean_doc returns the
\* document unchanged.
C10_PassThrough ==
    (lastOp.op = "clean_doc" /\ field_list[1] = <<>>) => cleanOut = cleanIn

(***************************************************************************)
(* transform_doc called on its own.                                        *)
(***************************************************************************)
\* transform_doc(d): the argument, the exception and the returned
\* dictionary are kept in lastOp
TransformDoc(d) ==
    /\ lastOp' = [op |-> "transform_doc",
                  raised |-> IF transform_raises(d) THEN "KeyError" ELSE "none",
                  calls |-> <<>>,
                  arg |-> d,
                  ret |-> IF transform_raises(d) THEN <<>> ELSE transform_doc(d)]
    /\ UNCHANGED <<prog, index, tags, nUpsert, nAdd, lastAdd, removedBuffered,
                   conc, filt>>

NextTransform == \E d \in TransformDocs : TransformDoc(d)

SpecTransform == Init /\ [][NextTransform]_vars

\* C11: transform_doc of a document that has _id does not fail, and when
\* value, value.data or value.data.address is missing the result has no
\* backend field of the missing object: without value or value.data it is
\* just _id and id, without address it has no cs_address_* key.
C11_OnlyMissingIdFails ==
    (lastOp.op = "transform_doc" /\ Has(lastOp.arg, "_id"))
       => /\ lastOp.raised = "none"
          /\ (~Has(lastOp.arg, "value") \/ ~Has(lastOp.arg["value"], "data"))
                => DOMAIN lastOp.ret = {k__id, k_id}
          /\ (/\ Has(lastOp.arg, "value")
              /\ Has(lastOp.arg["value"], "data")
              /\ ~Has(lastOp.arg["value"]["data"], "address"))
                => DOMAIN lastOp.ret \cap
                      {k_cs_address_street, k_cs_address_city,
                       k_cs_address_postal_code} = {}

\* C12: an upsert of a document without _id fails with KeyError and
\* changes nothing: the buffer, the counter, the backend and the record of
\* the calls are as before, and no backend call is issued.
C12_MalformedUpsertDropped ==
    [][\A d \in UpstreamDocs :
          (~Has(d, "_id") /\ Upsert(d, AddResults))
             => /\ lastOp'.raised = "KeyError"
                /\ lastOp'.calls = <<>>
                /\ UNCHANGED <<prog, index, tags, nUpsert, nAdd, lastAdd>>]_vars

\* C12 witness: an upsert has just failed with KeyError while documents
\* were buffered
C12_Witness ==
    /\ lastOp.op = "upsert"
    /\ lastOp.raised = "KeyError"
    /\ docs # <<>>

\* clean_doc was just called under a schema reply without exact fields and
\* with the single dynamic pattern the predicate describes, so that a key
\* is kept exactly when that pattern keeps it
OnePattern(trailing) ==
    /\ lastOp.op = "clean_doc"
    /\ field_list[1] = <<>>
    /\ Len(dynamic_field_list) = 1
    /\ LET p == dynamic_field_list[1]
       IN IF trailing THEN p[Len(p)] = "*" /\ p[1] # "*" ELSE p[1] = "*"

OnlyWordChars(k) == \A i \in 1..Len(k) : k[i] \in WordChars

\* C13: for a pattern p ending with '*', a key of word characters is kept
\* on account of p if and only if it starts with p[:-1] and a word character
\* follows the prefix.
C13_TrailingWildcard ==
    OnePattern(TRUE) =>
       LET p == dynamic_field_list[1]
           prefix == SubSeq(p, 1, Len(p) - 1)
       IN \A k \in DOMAIN cleanIn :
             OnlyWordChars(k) =>
                (k \in DOMAIN cleanOut
                   <=> LiteralAt(k, 0, prefix) /\ WordAt(k, Len(prefix) + 1))

\* C14: for a pattern p starting with '*', a key of word characters is kept
\* on account of p if and only if it ends with p[1:] and a word character
\* precedes the suffix.
C14_LeadingWildcard ==
    OnePattern(FALSE) =>
       LET p == dynamic_field_list[1]
           suffix == SubSeq(p, 2, Len(p))
       IN \A k \in DOMAIN cleanIn :
             OnlyWordChars(k) =>
                (k \in DOMAIN cleanOut
                   <=> /\ Len(k) > Len(suffix)
                       /\ LiteralAt(k, Len(k) - Len(suffix), suffix)
                       /\ WordAt(k, Len(k) - Len(suffix)))

\* C15: for a document with _id and value.data, transform_doc returns
\* exactly the mapping of the table: _id and id equal to the input _id, and
\* for each of the eight optional paths that is present its backend field
\* with the input value; no other key.
C15_TransformCorrect ==
    (/\ lastOp.op = "transform_doc"
     /\ Has(lastOp.arg, "_id")
     /\ Has(lastOp.arg, "value")
     /\ Has(lastOp.arg["value"], "data"))
    => LET data == lastOp.arg["value"]["data"]
           ret == lastOp.ret
           table ==
              { << <<"address", "street">>, k_cs_address_street >>,
                << <<"address", "city">>, k_cs_address_city >>,
                << <<"address", "postalCode">>, k_cs_address_postal_code >>,
                << <<"description">>, k_cs_description >>,
                << <<"email">>, k_cs_email >>,
                << <<"fax">>, k_fax >>,
                << <<"name">>, k_cs_name >>,
                << <<"phone">>, k_phone >> }
           present(p) ==
              Has(data, p[1]) /\ (Len(p) = 2 => Has(data[p[1]], p[2]))
           at(p) == IF Len(p) = 1 THEN data[p[1]] ELSE data[p[1]][p[2]]
       IN /\ lastOp.raised = "none"
          /\ DOMAIN ret =
                {k__id, k_id} \cup {e[2] : e \in {x \in table : present(x[1])}}
          /\ ret[k__id] = lastOp.arg["_id"]
          /\ ret[k_id] = lastOp.arg["_id"]
          /\ \A e \in table : present(e[1]) => ret[e[2]] = at(e[1])

\* C15 witness: the document of the example, name and phone only, gave
\* exactly _id, id, cs_name and phone
C15_Witness ==
    /\ lastOp.op = "transform_doc"
    /\ lastOp.raised = "none"
    /\ DOMAIN lastOp.arg["value"]["data"] = {"name", "phone"}
    /\ DOMAIN lastOp.ret = {k__id, k_id, k_cs_name, k_phone}

(***************************************************************************)
(* Queries: get_last_doc and search.                                       *)
(***************************************************************************)
\* get_last_doc with the except clause for ValueError left out
get_last_doc_noHandler(res, reply) ==
    IF res # "ok" THEN [raised |-> res, ret |-> "None"]
    ELSE IF Len(reply) = 0 THEN [raised |-> "none", ret |-> "None"]
    ELSE [raised |-> "none", ret |-> reply[1]]

\* get_last_doc (lines 255-267) when solr.search ends with res and, if it
\* returns, with the documents reply: the exception that leaves the method
\* and the value returned
get_last_doc(res, reply) ==
    IF res = "ValueError" THEN [raised |-> "none", ret |-> "None"]
    ELSE IF res # "ok" THEN [raised |-> res, ret |-> "None"]
    ELSE IF Len(reply) = 0 THEN [raised |-> "none", ret |-> "None"]
    ELSE [raised |-> "none", ret |-> reply[1]]

\* what the backend can answer to '*:*' sorted by _ts descending with
\* rows=1: nothing when the index is empty, else the one document it ranks
\* first
LastDocReplies == IF index = {} THEN {<<>>} ELSE {<<id>> : id \in index}

\* get_last_doc (lines 255-267): the query, the answer of the backend and
\* the outcome are kept in lastOp
GetLastDoc(res) ==
    /\ \E reply \in IF res = "ok" THEN LastDocReplies ELSE {<<>>} :
          LET r == get_last_doc(res, reply)
          IN lastOp' = [op |-> "get_last_doc", raised |-> r.raised,
                        calls |-> <<"search">>,
                        query |-> [q |-> "*:*", sort |-> "_ts desc", rows |-> 1],
                        res |-> res, reply |-> reply, ret |-> r.ret]
    /\ UNCHANGED <<prog, index, tags, nUpsert, nAdd, lastAdd, removedBuffered,
                   conc, filt>>

\* search (lines 227-231): solr.search over a _ts range with rows=100000000;
\* the answer of the backend is handed back as it is and exceptions leave
\* the method
Search(res) ==
    /\ lastOp' = Op("search", IF res = "ok" THEN "none" ELSE res, <<"search">>)
    /\ UNCHANGED <<prog, index, tags, nUpsert, nAdd, lastAdd, removedBuffered,
                   conc, filt>>

\* one writer calling every operation of the DocManager
NextAll ==
    \/ Next
    \/ \E res \in SearchResults : GetLastDoc(res)
    \/ \E res \in CallResults : Search(res)

\* DocManager(url) over a core whose schema declares exact fields and a
\* dynamic field
InitAll == InitWith({result \in Schemas : result.fields # <<>>}, {FALSE})

SpecAll == InitAll /\ [][NextAll]_vars

\* C16: get_last_doc issues one query, match-all, sorted by timestamp
\* descending, one row; it returns None without an exception when the
\* backend finds nothing or raises ValueError, returns the first result
\* otherwise, lets any other failure of the backend leave the method, and
\* changes neither the buffer nor the counter.
C16_LastDocAbsence ==
    /\ [](lastOp.op = "get_last_doc" =>
            /\ lastOp.calls = <<"search">>
            /\ lastOp.query = [q |-> "*:*", sort |-> "_ts desc", rows |-> 1]
            /\ (lastOp.res = "ValueError" =>
                    lastOp.raised = "none" /\ lastOp.ret = "None")
            /\ (lastOp.res = "ok" /\ lastOp.reply = <<>> =>
                    lastOp.raised = "none" /\ lastOp.ret = "None")
            /\ (lastOp.res = "ok" /\ lastOp.reply # <<>> =>
                    lastOp.raised = "none" /\ lastOp.ret = lastOp.reply[1])
            /\ (lastOp.res \notin {"ok", "ValueError"} =>
                    lastOp.raised = lastOp.res))
    /\ [][lastOp'.op = "get_last_doc" => UNCHANGED <<docs, commit_bulk_num>>]_vars

\* get_last_doc returned None after a ValueError of the backend while
\* documents were buffered and indexed
C16_Witness ==
    /\ lastOp.op = "get_last_doc"
    /\ lastOp.res = "ValueError"
    /\ lastOp.ret = "None"
    /\ lastOp.raised = "none"
    /\ docs # <<>>
    /\ index # {}

\* C17: clean_doc is idempotent: for every document and every schema
\* reply, cleaning the cleaned document gives the cleaned document again.
C17_FilterIdempotent ==
    lastOp.op = "clean_doc" => clean_doc(cleanOut) = cleanOut

\* clean_doc dropped some keys of a document and kept others
C17_Witness ==
    /\ lastOp.op = "clean_doc"
    /\ DOMAIN cleanOut # {}
    /\ DOMAIN cleanOut # DOMAIN cleanIn
    /\ dynamic_field_list # <<>>

\* C18 as stated: an upsert calls solr.add only if the counter after its
\* increment equals commit_bulk_max, and the counter never exceeds
\* commit_bulk_max.
C18_FlushOnlyAtThreshold ==
    /\ [][(lastOp'.op = "upsert" /\ lastOp'.calls = <<"add">>)
            => commit_bulk_num + 1 = commit_bulk_max]_vars
    /\ [](commit_bulk_num <= commit_bulk_max)

\* C18 amended: an upsert that buffers its document calls solr.add if and
\* only if the counter after its increment is at least commit_bulk_max;
\* the counter is at or above commit_bulk_max between operations only when
\* the latest solr.add was not accepted (SolrError or another exception).
C18_FlushAtOrAboveThreshold ==
    /\ [][(lastOp'.op = "upsert" /\ lastOp'.raised # "KeyError")
            => (lastOp'.calls = <<"add">>
                  <=> commit_bulk_num + 1 >= commit_bulk_max)]_vars
    /\ [](commit_bulk_num >= commit_bulk_max
            => nAdd > 0 /\ lastAdd.result \in {"SolrError", "IOError"})

\* an upsert flushed with the counter above commit_bulk_max, after an
\* earlier solr.add had failed
C18_Witness ==
    /\ lastOp.op = "upsert"
    /\ lastOp.calls = <<"add">>
    /\ lastAdd.num > commit_bulk_max
    /\ nAdd >= 2

\* C19: with one writer, commit_bulk_num equals the number of documents in
\* docs between operations, after any sequence of upsert, commit, remove,
\* wipe and query calls and whatever solr.add answered to each flush.
C19_CounterIsBufferLength ==
    commit_bulk_num = Len(docs)

\* a query made while two or more documents are still buffered above the
\* threshold, after a flush that the backend did not accept
C19_Witness ==
    /\ lastOp.op \in {"get_last_doc", "search"}
    /\ Len(docs) >= 2
    /\ commit_bulk_num > commit_bulk_max
    /\ lastAdd.result \in {"SolrError", "IOError"}
    /\ index # {}

\* C20: with one writer, the documents of every solr.add call are in the
\* order of their upserts, one document per upsert, and every document of
\* a call was upserted after every document that an earlier accepted call
\* had delivered.
C20_OrderPreserved ==
    nAdd > 0 =>
       /\ Len(lastAdd.docs) = Len(lastAdd.tags)
       /\ \A i, j \in 1..Len(lastAdd.tags) :
             i < j => lastAdd.tags[i].n < lastAdd.tags[j].n
       /\ \A i \in 1..Len(lastAdd.tags) :
             /\ lastAdd.tags[i].n > lastAdd.floor
             /\ Has(lastAdd.docs[i], k__id)
                   => lastAdd.docs[i][k__id] = lastAdd.tags[i].id

\* a solr.add call carrying two documents with different identifiers, one
\* of them resent after a failed call, after an earlier call was accepted
C20_Witness ==
    /\ nAdd >= 3
    /\ lastAdd.floor > 0
    /\ Len(lastAdd.tags) >= 2
    /\ lastAdd.tags[1].id # lastAdd.tags[2].id
    /\ Has(lastAdd.docs[1], k__id)

====
